---- MODULE Spec2Model ----
(***************************************************************************)
(* Realtime overlay engine of FE-ZADONATE: the reconnecting WebSocket      *)
(* transport, the frame normaliser, admission control and the presentation *)
(* timeline of the overlay pages (pages/donate/history.tsx GiftPage,       *)
(* pages/donate/text.tsx TextPage in its two variants, and the legacy      *)
(* pages/donate/gif.tsx and pages/donate/time.tsx).                        *)
(*                                                                         *)
(* Four specifications share the module:                                   *)
(*   SpecTransport  the socket / reconnect-timer state machine (untimed:   *)
(*                  a pending timer may fire at any moment);               *)
(*   Spec           the message handler, React state, effects and timers   *)
(*                  of an overlay page (discrete time, relative timers),   *)
(*                  for the pages without narration;                       *)
(*   SpecNarration  the same for the text overlay with narration;          *)
(*   SpecDuration   calculateDisplayDuration applied to a range of amounts.*)
(***************************************************************************)
EXTENDS Integers, Sequences, FiniteSets, TLC

VARIABLES
    page,                \* which page component is mounted
    \* ---- transport ----
    mounted,             \* FALSE once the WebSocket effect's cleanup has run
    sockets,             \* socket id -> connection state ("NONE" = not created)
    nSock,               \* number of sockets created so far
    wsRef,               \* wsRef.current: socket id, 0 = null
    reconnectTimeoutRef, \* reconnectTimeoutRef.current: timer id, 0 = null
    timers,              \* ids of the reconnect timers that are pending
    nTimers,             \* number of reconnect timers created so far
    sawNormalClose,      \* history: a close event with code 1000 was delivered
    ctorThrows,          \* the configured socket URL makes new WebSocket() throw
    \* ---- overlay page ----
    st,                  \* React state (useState values) of the page
    donationStateRef,    \* donationStateRef.current / textStateRef.current
    pauseStartTimeRef,   \* ms elapsed since pauseStartTimeRef.current, -1 = null
    tickTimer,           \* ms until the progress interval fires, -1 = none
    tickClosure,         \* isVisible / mediaType captured by the interval callback
    hardTimer,           \* ms until the auto-hide timeout fires, -1 = none
    mediaTimer,          \* ms until the media-only timeout fires, -1 = none
    resetPending,        \* the idle branch's setTimeout(.., 0) is pending
    effectActive,        \* the last auto-hide effect run armed the timers
    age,                 \* history: ms since the last admission
    fr,                  \* history: the last frame held a bad and an admitted segment
    fv,                  \* history: the last frame admitted an alert and held a
                         \* visibility event with another id
    expiredId,           \* history: id of the alert that expired at this instant
    ttsStart,            \* the pending narration-start timeouts: alert id, ms left
    ttsStop,             \* the pending narration-stop timeouts: ms left, and
                         \* whether ttsStopTimeoutRef.current holds the timeout
    utterance,           \* id of the alert being narrated, "" = silence
    bgm,                 \* the background audio element is playing
    bgmStop,             \* the pending "stop BGM" timeouts: ms left
    ytApi,               \* window.YT: "absent", "loading" (script appended) or
                         \* "ready"
    ytRetry,             \* a setTimeout(() => initializeYouTubePlayer(id), 100)
                         \* is pending
    youtubePlayerRef,    \* youtubePlayerRef.current holds a player
    audioReady,          \* audioRef.current.readyState >= 2
    audioRejects,        \* how many of the next play() calls the browser rejects
    bgmRetry,            \* pending 100 ms timeouts that play the audio again
    canPlayListeners,    \* onCanPlay listeners attached to the audio element
    \* ---- calculateDisplayDuration on its own ----
    amountIn,            \* the amount passed to calculateDisplayDuration
    durationOut,         \* the value it returned, -1 = not called yet
    \* ---- the media kind detection on its own ----
    mediaIn,             \* the media event handed to the idle media overlay
    kindOut,             \* the mediaType set for it, "none" = not handled yet
    \* ---- the message cap on its own ----
    messageIn,           \* data.message: the i-th character is written i
    messageOut,          \* the message stored for the alert, <<0>> = none yet
    \* ---- admin history page ----
    serverHistory,       \* ids of the donations the backend has stored, most
                         \* recent first
    history,             \* HistoryPage state history: ids in display order
    loading,             \* HistoryPage state loading
    offset,              \* HistoryPage state offset
    hasMore,             \* HistoryPage state hasMore
    fetches,             \* fetchHistory calls in flight: offset asked for and
                         \* the page the backend answered with, if it has
    pushes,              \* "history" events on their way to the page, in order
    \* ---- payment detail page ----
    backendStatus,       \* status of the order on the backend
    payment,             \* PaymentDetailPage state payment: its status
    pollInterval,        \* the setInterval of the poll effect is armed
    polls,               \* check-status requests in flight: the status the
                         \* backend answered with, if it has
    statusPushes,        \* "payment_status" events on their way to the page
    \* ---- middleware ----
    requestIn,           \* the request handed to middleware: pathname, token
    responseOut          \* what middleware returned, kind "none" = not yet

tvars == <<mounted, sockets, nSock, wsRef, reconnectTimeoutRef, timers,
           nTimers, sawNormalClose, ctorThrows>>

ovars == <<st, donationStateRef, pauseStartTimeRef, tickTimer,
           tickClosure, hardTimer, mediaTimer, resetPending, effectActive,
           age, fr, fv, expiredId, ttsStart, ttsStop, utterance, bgm, bgmStop,
           ytApi, ytRetry, youtubePlayerRef, audioReady, audioRejects,
           bgmRetry, canPlayListeners>>

hvars == <<serverHistory, history, loading, offset, hasMore, fetches, pushes>>

pvars == <<backendStatus, payment, pollInterval, polls, statusPushes>>

gvars == <<requestIn, responseOut>>

fvars == <<amountIn, durationOut, mediaIn, kindOut, messageIn, messageOut,
           hvars, pvars, gvars>>

vars == <<page, tvars, ovars, fvars>>

\* ------------------------------------------------------------------ bounds
MaxSockets == 4
MaxTimers == 4
MaxSegs == 2
AgeCap == 60000
MaxAmount == 2500
MaxTts == 2
MaxRejects == 2
MaxListeners == 2
MaxMsgLen == 260
MaxItems == 5
MaxOffset == 6
MaxPolls == 2
MaxStatusPushes == 2

\* ------------------------------------------------------- transport model
\* pages whose connectWebSocket guards its reconnect (history.tsx, text.tsx)
GuardedPages == {"gift", "text", "textTTS"}
\* pages with the older, unguarded connectWebSocket (gif.tsx, time.tsx)
LegacyPages == {"gif", "time"}

NORMAL_CLOSURE == 1000

\* CloseEvent.code values the browser can report
\*   1000 normal, 1001 going away, 1005 no status received, 1006 abnormal
ServerCloseCodes == {1000, 1001}
ClientCloseCodes == {1000, 1005}
\* the code of a close without a closing handshake
ABNORMAL == 1006

\* WebSocket.readyState
readyState(s) ==
    IF s \in {"CLOSING_C", "CLOSING_O"} THEN "CLOSING" ELSE s

\* the transport fields as one record, so that handlers compose
T == [sockets |-> sockets, nSock |-> nSock, wsRef |-> wsRef,
      ref |-> reconnectTimeoutRef, timers |-> timers, nTimers |-> nTimers]

\* reconnectTimeoutRef.current = setTimeout(connectWebSocket, delay)
setReconnectTimeout(t) ==
    [t EXCEPT !.nTimers = @ + 1, !.timers = @ \cup {t.nTimers + 1},
              !.ref = t.nTimers + 1]

\* ws.onopen
onopen(t) ==
    IF t.ref # 0
    THEN [t EXCEPT !.timers = @ \ {t.ref}, !.ref = 0]
    ELSE t

\* ws.onerror of socket s
onerror(p, t, s) ==
    IF p \in LegacyPages THEN t
    ELSE IF readyState(t.sockets[s]) \in {"CLOSED", "CLOSING"} /\ t.ref = 0
         THEN setReconnectTimeout(t)
         ELSE t

\* ws.onclose with CloseEvent.code = code
oncloseUnguarded(p, t, code) ==
    IF p \in LegacyPages THEN setReconnectTimeout(t)
    ELSE IF code # NORMAL_CLOSURE THEN setReconnectTimeout(t)
    ELSE t

onclose(p, t, code) ==
    IF p \in LegacyPages THEN setReconnectTimeout(t)
    ELSE IF code # NORMAL_CLOSURE /\ t.ref = 0 THEN setReconnectTimeout(t)
    ELSE t

\* WebSocket.close(): CONNECTING/OPEN -> CLOSING, otherwise no effect
close(t, s) ==
    IF t.sockets[s] = "CONNECTING" THEN [t EXCEPT !.sockets[s] = "CLOSING_C"]
    ELSE IF t.sockets[s] = "OPEN" THEN [t EXCEPT !.sockets[s] = "CLOSING_O"]
    ELSE t

\* connectWebSocket(); throws = the WebSocket constructor throws
connectWebSocket(p, t, throws) ==
    LET t1 == IF p \in GuardedPages /\ t.wsRef # 0
                 /\ readyState(t.sockets[t.wsRef]) = "OPEN"
              THEN close(t, t.wsRef) ELSE t
    IN IF throws
       THEN IF p \in LegacyPages \/ t1.ref = 0
            THEN setReconnectTimeout(t1) ELSE t1
       ELSE [t1 EXCEPT !.nSock = @ + 1,
                       !.sockets[t1.nSock + 1] = "CONNECTING",
                       !.wsRef = t1.nSock + 1]

\* how many timers / sockets a step may create at most
CanGrow(t) == t.nTimers < MaxTimers /\ t.nSock < MaxSockets

SetT(t) ==
    /\ sockets' = t.sockets
    /\ nSock' = t.nSock
    /\ wsRef' = t.wsRef
    /\ reconnectTimeoutRef' = t.ref
    /\ timers' = t.timers
    /\ nTimers' = t.nTimers

EmptyT == [sockets |-> [i \in 1..MaxSockets |-> "NONE"], nSock |-> 0,
           wsRef |-> 0, ref |-> 0, timers |-> {}, nTimers |-> 0]

\* the connection is established
SockOpen(s) ==
    /\ sockets[s] = "CONNECTING"
    /\ SetT(onopen([T EXCEPT !.sockets[s] = "OPEN"]))
    /\ UNCHANGED <<page, fvars, mounted, sawNormalClose, ctorThrows, ovars>>

\* the connection fails (never established, or dropped): error, then close
SockFail(s) ==
    /\ sockets[s] \in {"CONNECTING", "OPEN"}
    /\ CanGrow(T)
    /\ LET t0 == [T EXCEPT !.sockets[s] = "CLOSED"]
           t1 == onerror(page, t0, s)
       IN SetT(onclose(page, t1, ABNORMAL))
    /\ UNCHANGED <<page, fvars, mounted, sawNormalClose, ctorThrows, ovars>>

\* the server closes an open connection with a close frame
SockServerClose(s, code) ==
    /\ sockets[s] = "OPEN"
    /\ CanGrow(T)
    /\ SetT(onclose(page, [T EXCEPT !.sockets[s] = "CLOSED"], code))
    /\ sawNormalClose' = (sawNormalClose \/ code = NORMAL_CLOSURE)
    /\ UNCHANGED <<page, fvars, mounted, ctorThrows, ovars>>

\* the closing handshake started by close() completes
SockCloseDone(s, code) ==
    /\ sockets[s] \in {"CLOSING_C", "CLOSING_O"}
    /\ CanGrow(T)
    /\ LET t0 == [T EXCEPT !.sockets[s] = "CLOSED"] IN
         IF sockets[s] = "CLOSING_C"
         THEN /\ SetT(onclose(page, onerror(page, t0, s), ABNORMAL))
              /\ UNCHANGED sawNormalClose
         ELSE /\ SetT(onclose(page, t0, code))
              /\ sawNormalClose' = (sawNormalClose \/ code = NORMAL_CLOSURE)
    /\ UNCHANGED <<page, fvars, mounted, ctorThrows, ovars>>

\* a pending reconnect timer fires and calls connectWebSocket()
ReconnectFire(tm) ==
    /\ tm \in timers
    /\ CanGrow(T)
    /\ SetT(connectWebSocket(page, [T EXCEPT !.timers = @ \ {tm}], ctorThrows))
    /\ UNCHANGED <<page, fvars, mounted, sawNormalClose, ctorThrows, ovars>>

\* cleanup of the WebSocket effect (component teardown)
\* cleanup of the WebSocket effect
wsCleanup(t) ==
    LET t1 == IF t.wsRef # 0 THEN close(t, t.wsRef) ELSE t
    IN [t1 EXCEPT !.timers = @ \ {t1.ref}]

\* ----------------------------------------------------------- overlay model
\* pages with an alert overlay: history.tsx GiftPage ("gift"), text.tsx first
\* TextPage ("text") and text.tsx second TextPage with narration ("textTTS")
OverlayPages == {"gift", "text", "textTTS"}
NarrationPages == {"textTTS"}
TextPages == {"text", "textTTS"}

TickMs == 1000
MinDurationMs == 10000
TextDurationMs == 10000
MediaOnlyMs == 10000
GiftMessageCap == 160
TextMessageCap == 250
TtsDelayMs == 2000
TtsStopMs == 8000
BgmStopMs == 2000

Min(a, b) == IF a < b THEN a ELSE b
Max(a, b) == IF a > b THEN a ELSE b

\* calculateDisplayDuration(amount): (amount / 1000) * 10 * 1000, floor 10000
calculateDisplayDurationNoFloor(amount) ==
    IF amount <= 0 THEN MinDurationMs
    ELSE amount * 10

calculateDisplayDuration(amount) ==
    IF amount <= 0 THEN MinDurationMs
    ELSE Max(MinDurationMs, amount * 10)

\* null donationMessage / textMessage
NullMsg == [id |-> "", donorName |-> "", amount |-> 0, msgLen |-> 0]

\* the useState initial values; also what expiry and clear_queue set
IdleState ==
    [donationMessage |-> NullMsg, currentDonationId |-> "", isVisible |-> TRUE,
     remainingTime |-> 0, totalDuration |-> 0, mediaUrl |-> "",
     mediaType |-> "", startTime |-> 0, videoDuration |-> 0]

\* initial donationStateRef.current
IdleRef ==
    [donationMessage |-> NullMsg, totalDuration |-> 0, remainingTime |-> 0,
     startTime |-> 0]

\* state captured by the ws.onmessage closure: the WebSocket effect has an
\* empty dependency list, so the handler sees the first render's state
WsClosure == [currentDonationId |-> IdleState.currentDonationId]

\* ---- parsed messages.  Absent fields: "" for strings, 0 for amount and
\* duration, Undef for startTime/targetTime, "undef" for visible
Undef == -1
E0 == [type |-> "", id |-> "", donorName |-> "", amount |-> 0, duration |-> 0,
       msgLen |-> 0, mediaUrl |-> "", mediaType |-> "", startTime |-> Undef,
       targetTime |-> Undef, visible |-> "undef"]

Bad == [E0 EXCEPT !.type = "BAD"]       \* segment that JSON.parse rejects
Blank == [E0 EXCEPT !.type = "BLANK"]   \* segment of white space only

YouTubeUrl == "https://youtu.be/v1"
VideoUrl == "https://cdn.example/a.mp4"

DonA1 == [E0 EXCEPT !.type = "donation", !.id = "a1", !.donorName = "Tia",
                    !.amount = 1000, !.duration = 2500]
DonA2 == [E0 EXCEPT !.type = "donation", !.id = "a2", !.donorName = "Bo",
                    !.amount = 1500, !.msgLen = 200]
DonNeg == [E0 EXCEPT !.type = "donation", !.id = "a1", !.donorName = "Tia",
                     !.amount = 1000, !.duration = -5]
MedA1 == [E0 EXCEPT !.type = "media", !.id = "a1", !.mediaUrl = YouTubeUrl,
                    !.mediaType = "video", !.startTime = 30]
MedA2 == [E0 EXCEPT !.type = "media", !.id = "a2", !.mediaUrl = VideoUrl,
                    !.mediaType = "video", !.targetTime = 5]
ClearQueue == [E0 EXCEPT !.type = "clear_queue"]
VisA1F == [E0 EXCEPT !.type = "visibility", !.id = "a1", !.visible = "false"]
TxtA1 == [E0 EXCEPT !.type = "text", !.id = "a1", !.donorName = "Tia",
                    !.amount = 1000]
TxtA2 == [E0 EXCEPT !.type = "text", !.id = "a2", !.donorName = "Bo",
                    !.amount = 2000, !.duration = 20000, !.msgLen = 300]

\* the segments a frame is built from, per page
Segs(p) ==
    IF p = "gift"
    THEN {DonA1, DonA2, DonNeg, MedA1, MedA2, ClearQueue, VisA1F, Bad, Blank}
    ELSE {TxtA1, TxtA2, ClearQueue, VisA1F, Bad, Blank}

Frames(p) == UNION {[1..n -> Segs(p)] : n \in 1..MaxSegs}

\* ---- URL classification
\* the host names that occur somewhere in the url (the regular expressions
\* are not anchored)
Mentions(u) ==
    CASE u = YouTubeUrl -> {"youtu.be"}
      [] u = "https://www.youtube.com/watch?v=v2" -> {"youtube.com"}
      [] u = "https://www.instagram.com/reel/r1" -> {"instagram.com"}
      [] u = "https://www.tiktok.com/@a/video/1" -> {"tiktok.com"}
      [] u = "https://www.instagram.com/p/p1?ref=youtube.com"
             -> {"instagram.com", "youtube.com"}
      [] u = "https://www.tiktok.com/@a/video/2?src=instagram.com"
             -> {"tiktok.com", "instagram.com"}
      [] OTHER -> {}

isYouTubeUrl(u) == Mentions(u) \cap {"youtube.com", "youtu.be"} # {}
isInstagramUrl(u) == "instagram.com" \in Mentions(u)
isTikTokUrl(u) == "tiktok.com" \in Mentions(u)

\* ---- the message handler works on the record hs:
\*   nx, newObj   queued React state
\*   ref          donationStateRef.current
\*   pause        pauseStartTimeRef.current
\*   tick, hard   the interval / timeout behind progressIntervalRef and
\*                donationTimerRef
\*   ret          the handler executed `return`
\*   n            number of segments parsed and dispatched
\*   adm          an alert was admitted
\*   start, stop  the narration timeouts
\*   utt          the utterance of window.speechSynthesis
\*   bgm, bgmStop the background audio and its stop timeouts
inFlight(ref) == ref.donationMessage # NullMsg /\ ref.remainingTime > 0

\* "Only reset if current donation has finished": clear the timers
resetPrevious(hs) == [hs EXCEPT !.hard = -1, !.tick = -1]

\* case "donation"
onDonation(hs, ev, cid) ==
    IF ev.donorName # "" /\ ev.amount > 0 /\ ev.id # ""
    THEN IF inFlight(hs.ref)
         THEN [hs EXCEPT !.ret = TRUE]
         ELSE LET h1 == IF cid # "" /\ cid # ev.id
                        THEN resetPrevious(hs) ELSE hs
                  duration == IF ev.duration # 0 THEN ev.duration
                              ELSE calculateDisplayDuration(ev.amount)
              IN [h1 EXCEPT
                    !.nx = [@ EXCEPT
                       !.totalDuration = duration,
                       !.remainingTime = duration,
                       !.donationMessage =
                           [id |-> ev.id, donorName |-> ev.donorName,
                            amount |-> ev.amount,
                            msgLen |-> Min(ev.msgLen, GiftMessageCap)],
                       !.currentDonationId = ev.id,
                       !.isVisible = TRUE],
                    !.newObj = TRUE,
                    !.pause = -1,
                    !.adm = TRUE]
    ELSE hs

\* parsedStartTime of case "media"
parsedStartTime(ev) ==
    IF ev.targetTime # Undef
    THEN (IF ev.targetTime >= 0 THEN ev.targetTime ELSE 0)
    ELSE IF ev.startTime # Undef /\ ev.startTime >= 0 THEN ev.startTime
    ELSE 0

\* media type detection of case "media"
detectMediaTypeHintFirst(ev) ==
    IF ev.mediaType # "" THEN ev.mediaType
    ELSE IF isYouTubeUrl(ev.mediaUrl) THEN "youtube"
    ELSE IF isInstagramUrl(ev.mediaUrl) THEN "instagram"
    ELSE IF isTikTokUrl(ev.mediaUrl) THEN "tiktok"
    ELSE "image"

detectMediaType(ev) ==
    IF isYouTubeUrl(ev.mediaUrl) THEN "youtube"
    ELSE IF isInstagramUrl(ev.mediaUrl) THEN "instagram"
    ELSE IF isTikTokUrl(ev.mediaUrl) THEN "tiktok"
    ELSE IF ev.mediaType # "" THEN ev.mediaType
    ELSE "image"

\* case "media"
onMedia(hs, ev, cid) ==
    IF ev.mediaUrl # "" /\ ev.id # ""
    THEN IF inFlight(hs.ref)
         THEN [hs EXCEPT !.ret = TRUE]
         ELSE [hs EXCEPT
                 !.nx = [@ EXCEPT
                    !.mediaUrl = ev.mediaUrl,
                    !.currentDonationId = ev.id,
                    !.isVisible = TRUE,
                    !.startTime = parsedStartTime(ev),
                    !.mediaType = detectMediaType(ev)],
                 !.pause = -1]
    ELSE hs

\* case "clear_queue"
onClearQueue(hs) ==
    [hs EXCEPT !.hard = -1, !.tick = -1, !.nx = IdleState, !.newObj = FALSE,
               !.pause = -1, !.ref = IdleRef, !.player = FALSE]

\* "Resume BGM" / "Pause BGM" of the text overlays' visibility handler
bgmVisible(hs, b) ==
    IF page \in TextPages THEN [hs EXCEPT !.bgm = b] ELSE hs

\* case "visibility" (same code in both pages)
onVisibilityAnyId(hs, ev, cid) ==
    IF ev.id # ""
    THEN LET h1 == [hs EXCEPT !.nx.isVisible = (ev.visible # "false")] IN
         IF ev.visible = "true"
         THEN bgmVisible(IF hs.pause # -1
                         THEN [h1 EXCEPT !.nx.remainingTime = @ + hs.pause,
                                         !.pause = -1]
                         ELSE h1, TRUE)
         ELSE bgmVisible([h1 EXCEPT !.pause = 0], FALSE)
    ELSE hs

onVisibility(hs, ev, cid) ==
    IF ev.id # "" /\ ev.id = cid
    THEN LET h1 == [hs EXCEPT !.nx.isVisible = (ev.visible # "false")] IN
         IF ev.visible = "true"
         THEN bgmVisible(IF hs.pause # -1
                         THEN [h1 EXCEPT !.nx.remainingTime = @ + hs.pause,
                                         !.pause = -1]
                         ELSE h1, TRUE)
         ELSE bgmVisible([h1 EXCEPT !.pause = 0], FALSE)
    ELSE hs

\* the narration variant's setTimeout(() => { speak(ttsText); .. }, 2000)
scheduleSpeech(p, hs, ev) ==
    IF p \in NarrationPages
    THEN [hs EXCEPT !.start = @ \cup {[id |-> ev.id, left |-> TtsDelayMs]}]
    ELSE hs

\* the text overlays' "Play BGM": audioRef.current.play(), and in the
\* narration variant the setTimeout(.., 2000) that pauses it
\* audioRef.current.play(): when it is rejected and canRetry, the catch
\* handler reloads the element and arms the 100 ms retry; when it is
\* rejected otherwise the failure is only logged
tryPlay(p, hs, canRetry) ==
    IF hs.rejects > 0
    THEN IF canRetry
         THEN [hs EXCEPT !.rejects = @ - 1, !.bgm = FALSE, !.bretry = @ + 1]
         ELSE [hs EXCEPT !.rejects = @ - 1]
    ELSE IF p \in NarrationPages
         THEN [hs EXCEPT !.bgm = TRUE, !.bgmStop = @ \cup {BgmStopMs}]
         ELSE [hs EXCEPT !.bgm = TRUE]

playBGM(p, hs) ==
    IF hs.aready THEN tryPlay(p, hs, TRUE)
    ELSE [hs EXCEPT !.listeners = @ + 1]

\* type "text" of the text overlay; the narration variant has no admission
\* check
onText(p, hs, ev) ==
    IF ev.donorName # "" /\ ev.amount > 0 /\ ev.id # ""
    THEN IF p = "text" /\ inFlight(hs.ref)
         THEN [hs EXCEPT !.ret = TRUE]
         ELSE [scheduleSpeech(p, playBGM(p, hs), ev) EXCEPT
                 !.nx = [@ EXCEPT
                    !.totalDuration = TextDurationMs,
                    !.remainingTime = TextDurationMs,
                    !.donationMessage =
                        [id |-> ev.id, donorName |-> ev.donorName,
                         amount |-> ev.amount,
                         msgLen |-> Min(ev.msgLen, TextMessageCap)],
                    !.currentDonationId = ev.id,
                    !.isVisible = TRUE],
                 !.newObj = TRUE,
                 !.pause = -1,
                 !.adm = TRUE]
    ELSE hs

\* the switch / if chain on data.type
dispatch(p, hs, ev, cid) ==
    IF p = "gift"
    THEN CASE ev.type = "donation" -> onDonation(hs, ev, cid)
           [] ev.type = "media" -> onMedia(hs, ev, cid)
           [] ev.type = "clear_queue" -> onClearQueue(hs)
           [] ev.type = "visibility" -> onVisibility(hs, ev, cid)
           [] OTHER -> hs
    ELSE CASE ev.type = "text" -> onText(p, hs, ev)
           [] ev.type = "visibility" -> onVisibility(hs, ev, cid)
           [] OTHER -> hs

\* body of the for loop: try { JSON.parse; dispatch } catch { skip }
handleSegmentAbort(p, hs, seg, cid) ==
    IF seg.type = "BAD" THEN [hs EXCEPT !.ret = TRUE]
    ELSE [dispatch(p, hs, seg, cid) EXCEPT !.n = @ + 1]

handleSegment(p, hs, seg, cid) ==
    IF seg.type = "BAD" THEN hs
    ELSE [dispatch(p, hs, seg, cid) EXCEPT !.n = @ + 1]

RECURSIVE handleMessages(_, _, _, _, _)
handleMessages(p, hs, msgs, i, cid) ==
    IF i > Len(msgs) \/ hs.ret THEN hs
    ELSE handleMessages(p, handleSegment(p, hs, msgs[i], cid), msgs, i + 1, cid)

\* rawData.split('\n').filter(msg => msg.trim())
splitFrame(frame) == SelectSeq(frame, LAMBDA s : s.type # "BLANK")

\* ws.onmessage
onmessage(p, hs, frame, cid) ==
    handleMessages(p, hs, splitFrame(frame), 1, cid)

\* the page as the callbacks see it
HS == [nx |-> st, newObj |-> FALSE, ref |-> donationStateRef,
       pause |-> pauseStartTimeRef, tick |-> tickTimer, hard |-> hardTimer,
       closure |-> tickClosure, media |-> mediaTimer, reset |-> resetPending,
       active |-> effectActive, ret |-> FALSE, n |-> 0, adm |-> FALSE,
       start |-> ttsStart, stop |-> ttsStop, utt |-> utterance,
       bgm |-> bgm, bgmStop |-> bgmStop,
       api |-> ytApi, retry |-> ytRetry, player |-> youtubePlayerRef,
       aready |-> audioReady, rejects |-> audioRejects,
       bretry |-> bgmRetry, listeners |-> canPlayListeners]

\* ---- effects
\* currentDuration of the auto-hide effect
currentDuration(p, s) ==
    IF p = "text" THEN TextDurationMs
    ELSE IF s.totalDuration > 0 THEN s.totalDuration
    ELSE calculateDisplayDuration(s.donationMessage.amount)

\* the auto-hide effect: cleanup of the previous run, then the body
autoHideEffectNoTimers(p, s, h) ==
    LET c == IF h.active THEN [h EXCEPT !.hard = -1, !.tick = -1] ELSE h IN
    IF s.donationMessage = NullMsg
    THEN [c EXCEPT !.tick = -1, !.reset = TRUE, !.active = FALSE,
                   !.bgm = IF p = "text" THEN FALSE ELSE @]
    ELSE [c EXCEPT !.active = TRUE]

autoHideEffect(p, s, h) ==
    LET c == IF h.active THEN [h EXCEPT !.hard = -1, !.tick = -1] ELSE h IN
    IF s.donationMessage = NullMsg
    THEN [c EXCEPT !.tick = -1, !.reset = TRUE, !.active = FALSE,
                   !.bgm = IF p = "text" THEN FALSE ELSE @]
    ELSE [c EXCEPT !.tick = TickMs,
                   !.closure = [isVisible |-> s.isVisible,
                                mediaType |-> s.mediaType],
                   !.hard = currentDuration(p, s),
                   !.active = TRUE]

\* the "media without donation" effect: new value of the media-only timeout
mediaOnlyEffect(p, s) ==
    IF p = "gift" /\ s.mediaUrl # "" /\ s.donationMessage = NullMsg
       /\ s.mediaType = "video"
    THEN (IF s.videoDuration > 0 THEN s.videoDuration * 1000 ELSE MediaOnlyMs)
    ELSE -1

\* the YouTube iframe is in the document
iframePresent(s) ==
    mounted /\ s.isVisible /\ s.mediaType = "youtube" /\ s.mediaUrl # ""

\* initializeYouTubePlayer: without the iframe or the API it schedules itself
\* again after 100 ms, else it creates the player, which onReady stores
initializeYouTubePlayer(h, s) ==
    IF ~iframePresent(s) \/ h.api # "ready" THEN [h EXCEPT !.retry = TRUE]
    ELSE [h EXCEPT !.player = TRUE]

\* the YouTube effect: cleanup of the previous run (s), then loadYouTubeAPI
\* for the media of the new render (n)
youtubeEffect(p, s, n, h) ==
    LET c == IF s.mediaType = "youtube" /\ s.mediaUrl # ""
             THEN [h EXCEPT !.player = FALSE] ELSE h
    IN IF p # "gift" \/ n.mediaType # "youtube" \/ n.mediaUrl = "" THEN c
       ELSE IF c.api = "ready" THEN initializeYouTubePlayer(c, n)
       ELSE IF c.api = "absent" THEN [c EXCEPT !.api = "loading"]
       ELSE [c EXCEPT !.retry = TRUE]

\* the effect that mirrors the state into donationStateRef / textStateRef
syncRef(p, s) ==
    IF p = "gift"
    THEN [donationMessage |-> s.donationMessage,
          totalDuration |-> s.totalDuration,
          remainingTime |-> s.remainingTime, startTime |-> s.startTime]
    ELSE [donationMessage |-> s.donationMessage, totalDuration |-> 0,
          remainingTime |-> s.remainingTime, startTime |-> 0]

\* React commits the updates queued by a callback and runs the effects whose
\* dependencies changed; s is the state of the previous render
render(p, s, h) ==
    LET n == h.nx
        dm == n.donationMessage # s.donationMessage \/ h.newObj
        refDeps == IF p = "gift"
                   THEN dm \/ n.totalDuration # s.totalDuration
                        \/ n.remainingTime # s.remainingTime
                        \/ n.startTime # s.startTime
                   ELSE dm \/ n.remainingTime # s.remainingTime
        hideDeps == dm \/ n.isVisible # s.isVisible
                    \/ n.totalDuration # s.totalDuration
        mediaDeps == dm \/ n.mediaUrl # s.mediaUrl
                     \/ n.mediaType # s.mediaType
                     \/ n.videoDuration # s.videoDuration
        h1 == IF p # "textTTS" /\ refDeps
              THEN [h EXCEPT !.ref = syncRef(p, n)] ELSE h
        h2 == IF hideDeps THEN autoHideEffect(p, n, h1) ELSE h1
        ytDeps == n.mediaUrl # s.mediaUrl \/ n.mediaType # s.mediaType
        h3 == IF mediaDeps THEN [h2 EXCEPT !.media = mediaOnlyEffect(p, n)]
              ELSE h2
    IN IF ytDeps THEN youtubeEffect(p, s, n, h3) ELSE h3

\* ---- actions
\* the page's variables after a callback that left h, and the render after it
Commit(h0) ==
    LET h == IF mounted THEN render(page, st, h0) ELSE [h0 EXCEPT !.nx = st] IN
    /\ st' = h.nx
    /\ donationStateRef' = h.ref
    /\ pauseStartTimeRef' = h.pause
    /\ tickTimer' = h.tick
    /\ tickClosure' = h.closure
    /\ hardTimer' = h.hard
    /\ mediaTimer' = h.media
    /\ resetPending' = h.reset
    /\ effectActive' = h.active
    /\ ttsStart' = h.start
    /\ ttsStop' = h.stop
    /\ utterance' = h.utt
    /\ bgm' = h.bgm
    /\ bgmStop' = h.bgmStop
    /\ ytApi' = h.api
    /\ ytRetry' = h.retry
    /\ youtubePlayerRef' = h.player
    /\ audioReady' = h.aready
    /\ audioRejects' = h.rejects
    /\ bgmRetry' = h.bretry
    /\ canPlayListeners' = h.listeners

\* cleanups of the other effects at unmount: the auto-hide effect clears its
\* timeout and interval, the media-only effect its timeout, the audio effect
\* pauses and drops the audio element
unmountEffects(h) ==
    LET c == IF h.active THEN [h EXCEPT !.hard = -1, !.tick = -1] ELSE h IN
    [c EXCEPT !.media = -1, !.active = FALSE, !.player = FALSE,
              !.bgm = IF page \in TextPages THEN FALSE ELSE @]

\* the page is unmounted: every effect's cleanup runs
Unmount ==
    /\ mounted
    /\ mounted' = FALSE
    /\ SetT(wsCleanup(T))
    /\ Commit(unmountEffects(HS))
    /\ UNCHANGED <<page, fvars, sawNormalClose, ctorThrows, age, fr, fv,
                   expiredId>>

\* a frame arrives: ws.onmessage runs to completion
Frame(frame) ==
    /\ wsRef # 0 /\ sockets[wsRef] = "OPEN"
    /\ LET h == onmessage(page, HS, frame, WsClosure.currentDonationId) IN
         /\ Cardinality(h.start) + Cardinality(h.stop) <= MaxTts
         /\ h.listeners <= MaxListeners
         /\ Commit(h)
         /\ age' = IF h.adm \/ h.nx.donationMessage = NullMsg THEN 0 ELSE age
         /\ fr' = (h.adm /\ \E i \in 1..Len(frame) : frame[i].type = "BAD")
         /\ fv' = (h.adm /\ \E i \in 1..Len(frame) :
                             /\ frame[i].type = "visibility"
                             /\ frame[i].id # h.nx.donationMessage.id)
    /\ UNCHANGED <<page, fvars, tvars, expiredId>>

\* "Stop TTS" of the narration variant's expiry: speechSynthesis.cancel()
\* and clearTimeout(ttsStopTimeoutRef.current)
stopTTS(h) ==
    IF page \in NarrationPages
    THEN [h EXCEPT !.utt = "", !.stop = {t \in @ : ~t.cur}]
    ELSE h

\* "Stop BGM" of the expiry: audioRef.current.pause()
stopBGM(h) == [h EXCEPT !.bgm = FALSE]

\* the expiry's "destroy YouTube player": mediaType is the one the auto-hide
\* effect captured
destroyPlayer(h) ==
    IF h.closure.mediaType = "youtube" THEN [h EXCEPT !.player = FALSE] ELSE h

\* callback of the progress interval
progressTick(h) ==
    IF ~h.closure.isVisible THEN [h EXCEPT !.tick = TickMs]
    ELSE LET newTime == Max(0, h.nx.remainingTime - TickMs) IN
         IF newTime <= 0
         THEN [stopTTS(stopBGM(destroyPlayer(h)))
                   EXCEPT !.tick = -1, !.nx = IdleState,
                          !.newObj = FALSE, !.pause = -1]
         ELSE [h EXCEPT !.tick = TickMs, !.nx.remainingTime = newTime]

\* callback of the auto-hide timeout
autoHideTimeout(h) ==
    [stopTTS(stopBGM(destroyPlayer(h)))
         EXCEPT !.hard = -1, !.tick = -1, !.nx = IdleState,
                !.newObj = FALSE, !.pause = -1]

\* callback of a narration-start timeout: speak() cancels what is being
\* spoken and speaks the alert's text, then the stop timeout is armed and
\* stored in ttsStopTimeoutRef
speechStart(h, t) ==
    [h EXCEPT !.start = @ \ {t},
              !.utt = t.id,
              !.stop = {[x EXCEPT !.cur = FALSE] : x \in @}
                       \cup {[left |-> TtsStopMs, cur |-> TRUE]}]

\* callback of a "stop BGM" timeout
bgmTimeout(h, t) == [h EXCEPT !.bgm = FALSE, !.bgmStop = @ \ {t}]

\* callback of a narration-stop timeout
speechStop(h, t) ==
    [h EXCEPT !.utt = "",
              !.stop = {[x EXCEPT !.cur = FALSE] : x \in @ \ {t}}]

\* callback of the media-only timeout
mediaOnlyTimeout(h) ==
    [h EXCEPT !.media = -1,
              !.nx = [@ EXCEPT !.mediaUrl = "", !.mediaType = "",
                               !.startTime = 0, !.videoDuration = 0]]

\* callback of the idle branch's setTimeout(.., 0)
deferredReset(h) ==
    [h EXCEPT !.reset = FALSE,
              !.nx = [@ EXCEPT !.remainingTime = 0, !.totalDuration = 0]]

\* ---- end of playback.  Both players wait 100 ms after the report and then
\* decide from donationStateRef.current
donationOver(ref) ==
    \/ ref.donationMessage = NullMsg
    \/ ref.totalDuration <= 0
    \/ ref.remainingTime <= 0

\* handleEnded of the <video> element: pause at the end, or play from 0
handleEnded(ref) ==
    IF donationOver(ref) THEN [cmd |-> "pause", seek |-> Undef]
    ELSE [cmd |-> "play", seek |-> 0]

\* onStateChange of the YouTube player with event.data = ENDED: destroy the
\* player, or seek to startTime and play
onStateChange(ref) ==
    IF donationOver(ref) THEN [cmd |-> "destroy", seek |-> Undef]
    ELSE [cmd |-> "play",
          seek |-> IF ref.startTime > 0 THEN ref.startTime ELSE 0]

\* the progress interval fires
Tick ==
    /\ tickTimer = 0
    /\ LET h == progressTick(HS) IN
         /\ Commit(h)
         /\ age' = IF h.nx.donationMessage = NullMsg THEN 0 ELSE age
         /\ expiredId' = IF h.nx.donationMessage = NullMsg
                          THEN st.donationMessage.id ELSE expiredId
    /\ fr' = FALSE
    /\ fv' = FALSE
    /\ UNCHANGED <<page, fvars, tvars>>

\* the auto-hide timeout fires
HardStop ==
    /\ hardTimer = 0
    /\ Commit(autoHideTimeout(HS))
    /\ age' = 0
    /\ expiredId' = st.donationMessage.id
    /\ fr' = FALSE
    /\ fv' = FALSE
    /\ UNCHANGED <<page, fvars, tvars>>

\* the media-only timeout fires
MediaStop ==
    /\ mediaTimer = 0
    /\ Commit(mediaOnlyTimeout(HS))
    /\ fr' = FALSE
    /\ fv' = FALSE
    /\ UNCHANGED <<page, fvars, tvars, age, expiredId>>

\* the deferred reset fires
DeferredReset ==
    /\ resetPending
    /\ Commit(deferredReset(HS))
    /\ fr' = FALSE
    /\ fv' = FALSE
    /\ UNCHANGED <<page, fvars, tvars, age, expiredId>>

\* a narration-start timeout fires
TtsStart ==
    /\ \E t \in ttsStart : t.left = 0 /\ Commit(speechStart(HS, t))
    /\ fr' = FALSE
    /\ fv' = FALSE
    /\ UNCHANGED <<page, fvars, tvars, age, expiredId>>

\* a narration-stop timeout fires
TtsStop ==
    /\ \E t \in ttsStop : t.left = 0 /\ Commit(speechStop(HS, t))
    /\ fr' = FALSE
    /\ fv' = FALSE
    /\ UNCHANGED <<page, fvars, tvars, age, expiredId>>

\* a "stop BGM" timeout fires
BgmStop ==
    /\ \E t \in bgmStop : t = 0 /\ Commit(bgmTimeout(HS, t))
    /\ fr' = FALSE
    /\ fv' = FALSE
    /\ UNCHANGED <<page, fvars, tvars, age, expiredId>>

\* time passes: one tick period, or less when a timer is due earlier
Pending ==
    {x \in {tickTimer, hardTimer, mediaTimer} : x >= 0}
        \cup {t.left : t \in ttsStart \cup ttsStop} \cup bgmStop
Step == CHOOSE d \in Pending \cup {TickMs} :
            \A x \in Pending \cup {TickMs} : d <= x

Advance ==
    /\ ~resetPending
    /\ Pending # {} \/ (mounted /\ st.donationMessage # NullMsg /\ age < AgeCap)
    /\ Step > 0
    /\ tickTimer' = IF tickTimer >= 0 THEN tickTimer - Step ELSE tickTimer
    /\ hardTimer' = IF hardTimer >= 0 THEN hardTimer - Step ELSE hardTimer
    /\ mediaTimer' = IF mediaTimer >= 0 THEN mediaTimer - Step ELSE mediaTimer
    /\ pauseStartTimeRef' = IF pauseStartTimeRef >= 0
                            THEN Min(pauseStartTimeRef + Step, AgeCap)
                            ELSE pauseStartTimeRef
    /\ age' = IF st.donationMessage = NullMsg THEN 0
              ELSE Min(age + Step, AgeCap)
    /\ fr' = FALSE
    /\ fv' = FALSE
    /\ expiredId' = ""
    /\ ttsStart' = {[t EXCEPT !.left = @ - Step] : t \in ttsStart}
    /\ ttsStop' = {[t EXCEPT !.left = @ - Step] : t \in ttsStop}
    /\ bgmStop' = {t - Step : t \in bgmStop}
    /\ UNCHANGED <<page, fvars, tvars, st, donationStateRef, tickClosure,
                   resetPending, effectActive, utterance, bgm, ytApi,
                   ytRetry, youtubePlayerRef, audioReady, audioRejects,
                   bgmRetry, canPlayListeners>>

\* calculateDisplayDuration has not been called on its own
NotCapped == <<0>>

\* the admin history page is not mounted
NoHistory ==
    /\ serverHistory = <<>> /\ history = <<>>
    /\ loading = TRUE /\ offset = 0 /\ hasMore = TRUE
    /\ fetches = {} /\ pushes = <<>>

\* the payment detail page is not mounted
NoPayment ==
    /\ backendStatus = "PENDING" /\ payment = "null"
    /\ pollInterval = FALSE /\ polls = <<>> /\ statusPushes = <<>>

\* a getToken result: null, or the JWT's userType and role
NoToken == [present |-> FALSE, userType |-> "undefined", role |-> "undefined"]

NoResponse == [kind |-> "none", to |-> <<>>, search |-> <<>>]

\* middleware has not been called
NoRequest ==
    /\ requestIn = [pathname |-> <<>>, token |-> NoToken]
    /\ responseOut = NoResponse

NoCall ==
    /\ amountIn = 0 /\ durationOut = -1
    /\ mediaIn = E0 /\ kindOut = "none"
    /\ messageIn = <<>> /\ messageOut = NotCapped
    /\ NoHistory
    /\ NoPayment
    /\ NoRequest

\* ---- the overlay specification: the page is mounted, its socket is open
InitOverlay ==
    /\ st = IdleState
    /\ donationStateRef = IdleRef
    /\ pauseStartTimeRef = -1
    /\ tickTimer = -1
    /\ tickClosure = [isVisible |-> TRUE, mediaType |-> ""]
    /\ hardTimer = -1
    /\ mediaTimer = -1
    /\ resetPending = TRUE
    /\ effectActive = FALSE
    /\ age = 0
    /\ fr = FALSE
    /\ fv = FALSE
    /\ expiredId = ""
    /\ ttsStart = {}
    /\ ttsStop = {}
    /\ utterance = ""
    /\ bgm = FALSE
    /\ bgmStop = {}
    /\ ytRetry = FALSE
    /\ youtubePlayerRef = FALSE
    /\ bgmRetry = 0
    /\ canPlayListeners = 0

\* the transport and the overlay once the page is mounted and connected
Mounted ==
    /\ mounted = TRUE
    /\ sawNormalClose = FALSE
    /\ ctorThrows = FALSE
    /\ sockets = [i \in 1..MaxSockets |-> IF i = 1 THEN "OPEN" ELSE "NONE"]
    /\ nSock = 1
    /\ wsRef = 1
    /\ reconnectTimeoutRef = 0
    /\ timers = {}
    /\ nTimers = 0
    /\ InitOverlay

\* the player API was loaded by an earlier visit of the page (window.YT
\* survives client-side navigation) / the page is loaded afresh
ApiLoaded == ytApi = "ready"
ApiAbsent == ytApi = "absent"

\* the audio element has loaded and the browser lets it play
AudioFine == audioReady = TRUE /\ audioRejects = 0

Init ==
    /\ page \in OverlayPages \ NarrationPages
    /\ Mounted
    /\ ApiLoaded
    /\ AudioFine
    /\ NoCall

Next ==
    \/ \E f \in Frames(page) : Frame(f)
    \/ Tick
    \/ HardStop
    \/ MediaStop
    \/ DeferredReset
    \/ Advance

Spec == Init /\ [][Next]_vars

\* ---- the overlay specification of the text overlay with narration
InitNarration ==
    /\ page \in NarrationPages
    /\ Mounted
    /\ ApiAbsent
    /\ AudioFine
    /\ NoCall

NextNarration ==
    \/ \E f \in Frames(page) : Frame(f)
    \/ Tick
    \/ HardStop
    \/ DeferredReset
    \/ TtsStart
    \/ TtsStop
    \/ BgmStop
    \/ Advance
    \/ Unmount

SpecNarration == InitNarration /\ [][NextNarration]_vars

\* ---- the media overlay loaded afresh, with the YouTube player's life cycle
\* the iframe_api script has loaded: window.YT is set and
\* onYouTubeIframeAPIReady runs initializeYouTubePlayer
YtApiLoaded ==
    /\ ytApi = "loading"
    /\ Commit(initializeYouTubePlayer([HS EXCEPT !.api = "ready"], st))
    /\ fr' = FALSE
    /\ fv' = FALSE
    /\ UNCHANGED <<page, fvars, tvars, age, expiredId>>

\* a pending initializeYouTubePlayer timeout fires
YtInit ==
    /\ ytRetry
    /\ Commit(initializeYouTubePlayer([HS EXCEPT !.retry = FALSE], st))
    /\ fr' = FALSE
    /\ fv' = FALSE
    /\ UNCHANGED <<page, fvars, tvars, age, expiredId>>

InitPlayer ==
    /\ page = "gift"
    /\ Mounted
    /\ ApiAbsent
    /\ AudioFine
    /\ NoCall

NextPlayer ==
    \/ \E f \in Frames(page) : Frame(f)
    \/ Tick
    \/ HardStop
    \/ MediaStop
    \/ DeferredReset
    \/ Advance
    \/ YtApiLoaded
    \/ YtInit

SpecPlayer == InitPlayer /\ [][NextPlayer]_vars

\* ---- the text overlays with an audio element that may not be loaded yet
\* and a browser that may reject play()
\* callback of the 100 ms retry timeout
bgmRetryTimeout(p, h) ==
    LET c == [h EXCEPT !.bretry = @ - 1] IN
    IF mounted THEN tryPlay(p, c, FALSE) ELSE c

\* the element's canplay event: every onCanPlay listener plays and removes
\* itself
RECURSIVE runListeners(_, _)
runListeners(p, h) ==
    IF h.listeners = 0 THEN h
    ELSE runListeners(p, tryPlay(p, [h EXCEPT !.listeners = @ - 1], FALSE))

onCanPlay(p, h) == runListeners(p, [h EXCEPT !.aready = TRUE])

BgmRetry ==
    /\ bgmRetry > 0
    /\ Commit(bgmRetryTimeout(page, HS))
    /\ fr' = FALSE
    /\ fv' = FALSE
    /\ UNCHANGED <<page, fvars, tvars, age, expiredId>>

CanPlay ==
    /\ mounted /\ ~audioReady
    /\ Commit(onCanPlay(page, HS))
    /\ fr' = FALSE
    /\ fv' = FALSE
    /\ UNCHANGED <<page, fvars, tvars, age, expiredId>>

InitAudio ==
    /\ page \in TextPages
    /\ Mounted
    /\ ApiAbsent
    /\ audioReady \in BOOLEAN
    /\ audioRejects \in 0..MaxRejects
    /\ NoCall

NextAudio ==
    \/ \E f \in Frames(page) : Frame(f)
    \/ Tick
    \/ HardStop
    \/ DeferredReset
    \/ TtsStart
    \/ TtsStop
    \/ BgmStop
    \/ Advance
    \/ BgmRetry
    \/ CanPlay

SpecAudio == InitAudio /\ [][NextAudio]_vars

Pages == GuardedPages \cup LegacyPages

\* state right after the WebSocket effect ran at mount
InitTransport ==
    /\ page \in Pages
    /\ mounted = TRUE
    /\ sawNormalClose = FALSE
    /\ ctorThrows \in BOOLEAN
    /\ LET t == connectWebSocket(page, EmptyT, ctorThrows) IN
           /\ sockets = t.sockets
           /\ nSock = t.nSock
           /\ wsRef = t.wsRef
           /\ reconnectTimeoutRef = t.ref
           /\ timers = t.timers
           /\ nTimers = t.nTimers
    /\ InitOverlay
    /\ ApiAbsent
    /\ AudioFine
    /\ NoCall

NextTransport ==
    \/ \E s \in 1..MaxSockets : SockOpen(s)
    \/ \E s \in 1..MaxSockets : SockFail(s)
    \/ \E s \in 1..MaxSockets, c \in ServerCloseCodes : SockServerClose(s, c)
    \/ \E s \in 1..MaxSockets, c \in ClientCloseCodes : SockCloseDone(s, c)
    \/ \E tm \in 1..MaxTimers : ReconnectFire(tm)
    \/ Unmount

SpecTransport == InitTransport /\ [][NextTransport]_vars

Live == {s \in 1..MaxSockets : sockets[s] \in {"CONNECTING", "OPEN"}}

\* ------------------------------------------------------ transport claims
\* a socket whose close/error events are still to be delivered
Closing == {s \in 1..MaxSockets : sockets[s] \in {"CLOSING_C", "CLOSING_O"}}

\* C4: while the page is mounted the transport holds at most one socket that
\* is connecting or open and at most one pending reconnect timer.
C4_ReconnectNonDuplication ==
    mounted => (Cardinality(Live) <= 1 /\ Cardinality(timers) <= 1)

\* C4 witness: mounted, several sockets already closed, one timer pending
C4_Witness ==
    /\ mounted
    /\ Cardinality({s \in 1..MaxSockets : sockets[s] = "CLOSED"}) >= 2
    /\ Cardinality(timers) = 1

\* C5: while the page is mounted every connection that closed or failed for
\* a non-intentional reason is followed by another attempt, i.e. the
\* transport is never left with no live socket, no socket whose close event
\* is outstanding and no pending reconnect timer.
C5_InfiniteRetry ==
    (mounted /\ ~sawNormalClose /\ ~ctorThrows) =>
        (Live # {} \/ Closing # {} \/ timers # {})

\* C6: after the teardown no reconnect is scheduled and no socket is opened.
C6_IntentionalClose ==
    ~mounted => (timers = {} /\ Live = {})

\* -------------------------------------------------------- overlay claims
\* the handler record as the next callback finds it
Fresh(h) == [h EXCEPT !.ret = FALSE, !.n = 0, !.adm = FALSE, !.newObj = FALSE]

\* d milliseconds pass on the pause clock
Elapse(h, d) == [h EXCEPT !.pause = IF @ >= 0 THEN @ + d ELSE @]

\* the page after ws.onmessage handled a frame and React rendered; h is the
\* page before the frame and s its rendered state
FrameResult(h, s, frame) ==
    render(page, s, onmessage(page, Fresh(h), frame, WsClosure.currentDonationId))

\* the event passes the validity test of the page's admitting handler
Admits(p, ev) ==
    /\ ev.type = (IF p = "gift" THEN "donation" ELSE "text")
    /\ ev.donorName # "" /\ ev.amount > 0 /\ ev.id # ""

\* frames made of donation, media and text events only
AlertFrames(p) ==
    {f \in Frames(p) :
        \A i \in 1..Len(f) : f[i].type \in {"donation", "media", "text"}}

\* id, donor, amount, total duration and remaining time of the alert shown
AlertOf(s) ==
    <<s.donationMessage.id, s.donationMessage.donorName,
      s.donationMessage.amount, s.totalDuration, s.remainingTime>>

\* C1: while an alert is in flight no frame of donation/media/text events
\* changes its id, donor, amount, total duration or remaining time; and when
\* the overlay is idle and a frame starts with an admissible event, that
\* first event is the alert shown after the frame.
C1_AdmissionExclusivity ==
    /\ (st.donationMessage # NullMsg /\ st.remainingTime > 0) =>
          \A f \in AlertFrames(page) :
              AlertOf(FrameResult(HS, st, f).nx) = AlertOf(st)
    /\ st.donationMessage = NullMsg =>
          \A f \in AlertFrames(page) :
              Admits(page, f[1]) =>
                  LET s1 == FrameResult(HS, st, f).nx IN
                  /\ s1.donationMessage.id = f[1].id
                  /\ s1.donationMessage.donorName = f[1].donorName
                  /\ s1.donationMessage.amount = f[1].amount

\* the donation d is shown with the media of m
ShownTogether(s, d, m) ==
    /\ s.donationMessage.id = d.id
    /\ s.currentDonationId = d.id
    /\ s.mediaUrl = m.mediaUrl
    /\ s.mediaType = detectMediaType(m)
    /\ s.startTime = parsedStartTime(m)

\* C2: on the media overlay, a valid donation and a valid media event with
\* the same id are shown as one alert, whether they arrive in one frame or
\* in two successive frames.
C2_DonationMediaCorrelation ==
    (page = "gift" /\ st.donationMessage = NullMsg /\ st.mediaUrl = "") =>
        \A d \in Segs(page), m \in Segs(page) :
            (Admits(page, d) /\ m.type = "media" /\ m.mediaUrl # ""
             /\ m.id = d.id) =>
                LET same == FrameResult(HS, st, <<d, m>>)
                    first == FrameResult(HS, st, <<d>>)
                    second == FrameResult(first, first.nx, <<m>>)
                IN /\ ShownTogether(same.nx, d, m)
                   /\ ShownTogether(second.nx, d, m)

\* C3: an alert with remaining time R that is paused by a visibility event
\* with its id keeps its remaining time while a tick period passes, is not
\* removed, and has remaining time R right after the matching resume.
C3_PauseConservation ==
    (st.donationMessage # NullMsg /\ st.remainingTime > TickMs
     /\ st.isVisible /\ tickTimer >= 0) =>
        LET vis(b) == [E0 EXCEPT !.type = "visibility",
                                 !.id = st.donationMessage.id, !.visible = b]
            paused == FrameResult(HS, st, <<vis("false")>>)
            ticked == render(page, paused.nx,
                             progressTick(Elapse(Fresh(paused), TickMs)))
            resumed == FrameResult(ticked, ticked.nx, <<vis("true")>>)
        IN /\ ticked.nx.donationMessage = st.donationMessage
           /\ ticked.nx.remainingTime = st.remainingTime
           /\ resumed.nx.remainingTime = st.remainingTime

\* C7: clear_queue always leaves the overlay idle and hidden with no media,
\* no remaining time and no alert timer; a second clear_queue, or one
\* arriving when nothing is shown, changes nothing.
C7_ClearQueue ==
    LET once == FrameResult(HS, st, <<ClearQueue>>)
        twice == FrameResult(once, once.nx, <<ClearQueue>>)
    IN /\ once.nx.donationMessage = NullMsg
       /\ once.nx.mediaUrl = ""
       /\ once.nx.remainingTime = 0
       /\ once.tick = -1 /\ once.hard = -1
       /\ twice.nx = once.nx
       /\ st = IdleState => once.nx = st

\* the segments of a frame that parse as JSON
Parseable(frame) == SelectSeq(splitFrame(frame), LAMBDA s : s.type # "BAD")

\* C8: every segment of a frame that parses is dispatched; none is skipped.
C8_FrameOrderCompleteness ==
    \A f \in Frames(page) :
        onmessage(page, HS, f, WsClosure.currentDonationId).n
            = Len(Parseable(f))

\* the frame without the segments that fail to parse
StripBad(frame) == SelectSeq(frame, LAMBDA s : s.type # "BAD")

\* C9: a segment that fails to parse is dropped and leaves the page as it
\* was; the other segments of the frame are handled as if it were absent.
C9_ParseFailureIsolation ==
    \A f \in Frames(page) :
        f # StripBad(f) =>
            FrameResult(HS, st, f) = FrameResult(HS, st, StripBad(f))

\* C9 witness: the frame just handled held a segment that is not JSON and a
\* segment whose alert was admitted and is shown
C9_Witness == fr /\ st.donationMessage # NullMsg

\* C10: an alert is never shown longer than its total duration plus one
\* tick, and whenever no alert is shown, in particular after an expiry, a
\* valid event is admitted.
C10_Expiry ==
    /\ st.donationMessage # NullMsg =>
          age <= Max(st.totalDuration, 0) + TickMs
    /\ st.donationMessage = NullMsg =>
          \A d \in Segs(page) :
              Admits(page, d) =>
                  LET s1 == FrameResult(HS, st, <<d>>).nx IN
                  /\ s1.donationMessage.id = d.id
                  /\ s1.donationMessage.amount = d.amount
                  /\ s1.isVisible

\* C10 witness: the alert for amount 1500 with its 15000 ms, just admitted
\* after another alert expired
C10_Witness ==
    /\ expiredId = "a1"
    /\ st.donationMessage.id = "a2"
    /\ st.donationMessage.amount = 1500
    /\ st.totalDuration = 15000
    /\ st.remainingTime = 15000

\* donation / text events whose amount is zero or negative, other required
\* fields present
BadAmountEvents(p) ==
    {[E0 EXCEPT !.type = (IF p = "gift" THEN "donation" ELSE "text"),
                !.id = "a1", !.donorName = "Tia", !.amount = a] :
        a \in {0, -500}}

\* C11: with no alert in flight, a donation whose amount is zero or negative
\* is admitted and shown with the 10-second minimum duration.
C11_MalformedAmountAdmitted ==
    st.donationMessage = NullMsg =>
        \A d \in BadAmountEvents(page) :
            LET s1 == FrameResult(HS, st, <<d>>).nx IN
            /\ s1.donationMessage.id = d.id
            /\ s1.totalDuration = MinDurationMs
            /\ s1.remainingTime = MinDurationMs

\* ----------------------------------- calculateDisplayDuration on its own
Amounts == (-MaxAmount)..MaxAmount

InitDuration ==
    /\ page = "gift"
    /\ Mounted
    /\ ApiAbsent
    /\ AudioFine
    /\ amountIn \in Amounts
    /\ durationOut = -1
    /\ mediaIn = E0 /\ kindOut = "none"
    /\ messageIn = <<>> /\ messageOut = NotCapped
    /\ NoHistory
    /\ NoPayment
    /\ NoRequest

\* calculateDisplayDuration(amountIn) is called
Calculate ==
    /\ durationOut = -1
    /\ durationOut' = calculateDisplayDuration(amountIn)
    /\ UNCHANGED <<page, tvars, ovars, amountIn, mediaIn, kindOut, messageIn,
                   messageOut, hvars, pvars, gvars>>

NextDuration == Calculate

SpecDuration == InitDuration /\ [][NextDuration]_vars

C13_DurationSelection ==
    (page = "gift" /\ st.donationMessage = NullMsg) =>
        \A d \in Segs(page) :
            Admits(page, d) =>
                FrameResult(HS, st, <<d>>).nx.totalDuration
                    = (IF d.duration > 0 THEN d.duration
                       ELSE calculateDisplayDuration(d.amount))

\* a visibility event carrying the given id
Visibility(id, b) ==
    [E0 EXCEPT !.type = "visibility", !.id = id, !.visible = b]

\* C14: a visibility event with the id of the active alert and visible:false
\* pauses the alert (not visible, pause start recorded, the next tick leaves
\* the remaining time alone); the same with visible:true makes it visible
\* again and clears the pause start.
C14_VisibilityTogglesPause ==
    (st.donationMessage # NullMsg /\ st.isVisible
     /\ st.currentDonationId = st.donationMessage.id) =>
        LET id == st.currentDonationId
            paused == FrameResult(HS, st, <<Visibility(id, "false")>>)
            ticked == progressTick(Fresh(paused))
            resumed == FrameResult(paused, paused.nx,
                                   <<Visibility(id, "true")>>)
        IN /\ ~paused.nx.isVisible
           /\ paused.pause # -1
           /\ ticked.nx.remainingTime = paused.nx.remainingTime
           /\ resumed.nx.isVisible
           /\ resumed.pause = -1

\* visibility events whose id is missing or is not the id of the alert shown
OtherVisibility ==
    {Visibility(id, b) : id \in {"", "a1", "a2", "zz"} \ {st.donationMessage.id,
                                                         st.currentDonationId},
                         b \in {"true", "false", "undef"}}
        \cup {Visibility("", b) : b \in {"true", "false", "undef"}}

\* the callback left state, refs and timers as they were
Untouched(h) ==
    /\ h.nx = st
    /\ h.ref = donationStateRef
    /\ h.pause = pauseStartTimeRef
    /\ h.tick = tickTimer /\ h.closure = tickClosure
    /\ h.hard = hardTimer
    /\ h.media = mediaTimer
    /\ h.reset = resetPending /\ h.active = effectActive
    /\ h.start = ttsStart /\ h.stop = ttsStop /\ h.utt = utterance
    /\ h.bgm = bgm /\ h.bgmStop = bgmStop

\* C15: a visibility event whose id is missing or differs from the id of
\* the alert shown (also when none is shown) changes nothing: visibility
\* flag, pause start, remaining time, timers and media stay as they were.
C15_OtherVisibilityIgnored ==
    \A v \in OtherVisibility : Untouched(FrameResult(HS, st, <<v>>))

\* C15 witness: an alert is shown and the frame that admitted it also held
\* a visibility event for another id
C15_Witness == fv /\ st.donationMessage # NullMsg /\ st.isVisible

\* the state an admission leaves: full remaining time
JustAdmitted(s) ==
    /\ s.donationMessage # NullMsg
    /\ s.totalDuration # 0
    /\ s.remainingTime = s.totalDuration

\* the step neither ends the alert shown nor admits another one
SameAlert ==
    /\ st.donationMessage # NullMsg
    /\ st'.donationMessage = st.donationMessage
    /\ age' >= age
    /\ ~JustAdmitted(st')

\* C16: the auto-hide timeout of an alert is started once: while the alert
\* is shown no step starts it again, it only runs down.
C16_HardStopOnce ==
    [][(SameAlert /\ hardTimer >= 0) =>
           (hardTimer' >= 0 /\ hardTimer' <= hardTimer)]_vars

\* C17: while an alert is shown a tick takes exactly 1000 ms off the
\* remaining time, not going below 0; when that leaves 0 the alert is gone
\* and the overlay idle; a tick that fires right after a pause event for the
\* alert was handled takes nothing off.
C17_TickPauseOrdering ==
    (st.donationMessage # NullMsg /\ st.isVisible /\ tickTimer >= 0
     /\ st.currentDonationId = st.donationMessage.id) =>
        LET left == Max(0, st.remainingTime - TickMs)
            ticked == progressTick(Fresh(HS))
            paused == onmessage(page, Fresh(HS),
                                <<Visibility(st.currentDonationId, "false")>>,
                                WsClosure.currentDonationId)
            tickedPaused == progressTick(Fresh(paused))
        IN /\ ticked.nx.remainingTime = left
           /\ left = 0 => ticked.nx = IdleState
           /\ left > 0 => ticked.nx.donationMessage = st.donationMessage
           /\ tickedPaused.nx.remainingTime = st.remainingTime
           /\ tickedPaused.nx.donationMessage = st.donationMessage

\* C18: while an alert is shown its remaining time lies between 0 and its
\* total duration.
C18_ProgressBounds ==
    st.donationMessage # NullMsg =>
        (0 <= st.remainingTime /\ st.remainingTime <= st.totalDuration)

\* the media shown is played by a player that reports its end
HasPlayer(s) == s.mediaUrl # "" /\ s.mediaType \in {"video", "youtube"}

\* what the player of the media shown is told when playback has ended
PlaybackEnded ==
    IF st.mediaType = "video" THEN handleEnded(donationStateRef)
    ELSE onStateChange(donationStateRef)

\* C19: when the player of the media shown reports the end of playback, the
\* media is played again exactly if an alert is shown with remaining time
\* above 0, and then from the alert's start offset; otherwise the player is
\* paused or destroyed.
C19_MediaEndLoopPolicy ==
    (page = "gift" /\ HasPlayer(st)) =>
        LET active == st.donationMessage # NullMsg /\ st.remainingTime > 0 IN
        /\ active => /\ PlaybackEnded.cmd = "play"
                     /\ PlaybackEnded.seek = st.startTime
        /\ ~active => PlaybackEnded.cmd \in {"pause", "destroy"}
\* C20: narration is heard only for the alert shown, and only from 2000 ms
\* to 10000 ms after the alert was created (8000 ms after the narration
\* started); between these two instants the alert shown is being narrated.
C20_NarrationWindow ==
    /\ utterance # "" =>
          /\ st.donationMessage.id = utterance
          /\ age >= TtsDelayMs
          /\ age <= TtsDelayMs + TtsStopMs
    /\ (st.donationMessage # NullMsg /\ age > TtsDelayMs
        /\ age < TtsDelayMs + TtsStopMs) =>
          utterance = st.donationMessage.id
\* C21: on the text overlays the background audio plays during the first
\* 2000 ms of the alert shown and is silent after them.
C21_BackgroundAudioWindow ==
    (page \in TextPages /\ st.donationMessage # NullMsg) =>
        /\ age < BgmStopMs => bgm
        /\ age > BgmStopMs => ~bgm
\* C22: once the page is unmounted no reconnect timer, progress interval,
\* auto-hide or media timeout, narration or audio timeout is pending, no
\* socket is connecting or open and nothing is being narrated.
C22_TeardownCancellation ==
    ~mounted =>
        /\ timers = {} /\ Live = {}
        /\ tickTimer = -1 /\ hardTimer = -1 /\ mediaTimer = -1
        /\ ttsStart = {} /\ ttsStop = {} /\ bgmStop = {}
        /\ utterance = ""
\* id of the media event that carries the url
MediaIdOf(url) ==
    (CHOOSE m \in Segs("gift") : m.type = "media" /\ m.mediaUrl = url).id

\* C23: a donation and a media shown together come from events with the
\* same id.
C23_SingleCorrelatedAlert ==
    (page = "gift" /\ st.donationMessage # NullMsg /\ st.mediaUrl # "") =>
        MediaIdOf(st.mediaUrl) = st.donationMessage.id
\* C24: while an alert stays on screen its total duration is kept and a
\* step takes at most one tick of 1000 ms off its remaining time.
C24_UninterruptedDisplay ==
    [][SameAlert =>
           /\ st'.totalDuration = st.totalDuration
           /\ st'.remainingTime <= st.remainingTime
           /\ st'.remainingTime >= st.remainingTime - TickMs]_vars
\* what the admission check reads of a shadow state or of the state
AdmissionView(r) == <<r.donationMessage, r.remainingTime>>

\* C25: the shadow state a handler reads at its admission check equals the
\* alert state: between frames, and after an earlier segment of the same
\* frame was handled.
C25_ShadowStateFreshness ==
    /\ AdmissionView(donationStateRef) = AdmissionView(st)
    /\ \A ev \in Segs(page) :
           LET h == onmessage(page, Fresh(HS), <<ev>>,
                              WsClosure.currentDonationId)
           IN AdmissionView(h.ref) = AdmissionView(h.nx)
\* media is shown without a donation
MediaOnly(s) == s.mediaUrl # "" /\ s.donationMessage = NullMsg

\* C26: while media is shown without a donation, the timeout that removes
\* it is pending and due within the media-only display time.
C26_MediaOnlyExpiry ==
    (page = "gift" /\ MediaOnly(st)) =>
        (mediaTimer >= 0 /\ mediaTimer <= MediaOnlyMs)
\* C27: when no alert is shown, nothing created for an earlier alert is left:
\* no progress interval, auto-hide or media timeout, no YouTube player and
\* no pending player initialisation.
C27_ResourceRelease ==
    (st.donationMessage = NullMsg /\ st.mediaUrl = "") =>
        /\ tickTimer = -1 /\ hardTimer = -1 /\ mediaTimer = -1
        /\ ~youtubePlayerRef
        /\ ~ytRetry
\* the admissible events that carry the id
Deliveries(p, id) == {d \in Segs(p) : Admits(p, d) /\ d.id = id}

\* C28: an event with the id of the alert shown leaves that alert as it is,
\* and an event with the id of the alert that has just expired is not
\* shown.
C28_DuplicateDelivery ==
    /\ st.donationMessage # NullMsg =>
          \A d \in Deliveries(page, st.donationMessage.id) :
              AlertOf(FrameResult(HS, st, <<d>>).nx) = AlertOf(st)
    /\ (expiredId # "" /\ st.donationMessage = NullMsg) =>
          \A d \in Deliveries(page, expiredId) :
              FrameResult(HS, st, <<d>>).nx.donationMessage = NullMsg
\* C29: whenever neither a donation nor media is shown, remaining time and
\* total duration are 0, no alert id is current, the overlay is visible, no
\* pause is recorded and neither the progress interval nor the auto-hide
\* timeout is pending.
C29_IdleState ==
    (st.donationMessage = NullMsg /\ st.mediaUrl = "") =>
        /\ st.remainingTime = 0 /\ st.totalDuration = 0
        /\ st.currentDonationId = ""
        /\ st.isVisible
        /\ pauseStartTimeRef = -1
        /\ tickTimer = -1 /\ hardTimer = -1
\* a text event admitted by the idle overlay gets 10000 ms as total duration,
\* as remaining time and as auto-hide timeout
TextAdmission ==
    (page \in TextPages /\ st.donationMessage = NullMsg) =>
        \A d \in Segs(page) :
            Admits(page, d) =>
                LET r == FrameResult(HS, st, <<d>>) IN
                /\ r.nx.totalDuration = TextDurationMs
                /\ r.nx.remainingTime = TextDurationMs
                /\ r.hard = TextDurationMs

\* a text alert is not shown longer than 10000 ms
TextNotLonger ==
    (page \in TextPages /\ st.donationMessage # NullMsg) =>
        age <= TextDurationMs

\* the step is the expiry of the text alert shown
TextExpiry ==
    /\ page \in TextPages
    /\ st.donationMessage # NullMsg
    /\ st'.donationMessage = NullMsg
    /\ expiredId' # ""

\* C30: every text alert is admitted with a total duration of 10000 ms,
\* whatever its amount and backend duration, is not shown longer than that,
\* and expires 10000 ms after its admission, not earlier.
C30_TextFixedDisplayTime ==
    /\ [](TextAdmission /\ TextNotLonger)
    /\ [][TextExpiry => age = TextDurationMs]_vars
\* what the page shows and the timers that remove it
AlertPart(h) ==
    <<h.nx, h.ref, h.pause, h.tick, h.closure, h.hard, h.reset, h.active>>

\* the page with an audio element that is loaded and plays
AudioOk(h) == [h EXCEPT !.aready = TRUE, !.rejects = 0]

\* whatever the audio element does, every frame leaves the same alert and
\* the same timers as with working audio, and the audio callbacks leave them
\* as they are
AlertUnaffected ==
    /\ \A f \in Frames(page) :
           AlertPart(FrameResult(HS, st, f))
               = AlertPart(FrameResult(AudioOk(HS), st, f))
    /\ AlertPart(render(page, st, bgmRetryTimeout(page, Fresh(HS))))
           = AlertPart(HS)
    /\ AlertPart(render(page, st, onCanPlay(page, Fresh(HS)))) = AlertPart(HS)

\* the step had a play() rejected that was not the retry
FirstPlayRejected == audioRejects' < audioRejects /\ bgmRetry' >= bgmRetry

\* C31: a rejected play() of the background audio is followed by exactly one
\* retry, a rejected retry by none, and the alert and its timers are the
\* same whatever the audio does.
C31_AudioFailure ==
    /\ []AlertUnaffected
    /\ [][FirstPlayRejected =>
              bgmRetry' - bgmRetry = audioRejects - audioRejects']_vars

\* -------------------------------------- the media kind detection on its own
MediaUrls ==
    {YouTubeUrl, VideoUrl, "https://cdn.example/a.png",
     "https://www.youtube.com/watch?v=v2",
     "https://www.instagram.com/reel/r1",
     "https://www.tiktok.com/@a/video/1",
     "https://www.instagram.com/p/p1?ref=youtube.com",
     "https://www.tiktok.com/@a/video/2?src=instagram.com"}

\* data.mediaType: absent, one of the five kinds, or something else
Hints == {"", "image", "video", "youtube", "instagram", "tiktok", "audio"}

MediaEvents ==
    {[E0 EXCEPT !.type = "media", !.id = i, !.mediaUrl = u, !.mediaType = k] :
        i \in {"a1", "a2"}, u \in MediaUrls, k \in Hints}

InitMedia ==
    /\ page = "gift"
    /\ Mounted
    /\ ApiLoaded
    /\ AudioFine
    /\ amountIn = 0 /\ durationOut = -1
    /\ mediaIn \in MediaEvents
    /\ kindOut = "none"
    /\ messageIn = <<>> /\ messageOut = NotCapped
    /\ NoHistory
    /\ NoPayment
    /\ NoRequest

\* the idle overlay receives the frame that holds mediaIn
Classify ==
    /\ kindOut = "none"
    /\ kindOut' = FrameResult(HS, st, <<mediaIn>>).nx.mediaType
    /\ UNCHANGED <<page, tvars, ovars, amountIn, durationOut, mediaIn,
                   messageIn, messageOut, hvars, pvars, gvars>>

NextMedia == Classify

SpecMedia == InitMedia /\ [][NextMedia]_vars

\* C32: the kind set for an admitted media event is youtube if the url holds
\* youtube.com or youtu.be, else instagram if it holds instagram.com, else
\* tiktok if it holds tiktok.com, else the event's mediaType hint, else
\* image; the hint never overrides what the url says.
C32_MediaKind ==
    kindOut # "none" =>
        LET m == Mentions(mediaIn.mediaUrl) IN
        kindOut = (IF "youtube.com" \in m \/ "youtu.be" \in m THEN "youtube"
                   ELSE IF "instagram.com" \in m THEN "instagram"
                   ELSE IF "tiktok.com" \in m THEN "tiktok"
                   ELSE IF mediaIn.mediaType # "" THEN mediaIn.mediaType
                   ELSE "image")

\* C32 witness: a YouTube url that came with the hint video was classified
\* as youtube
C32_Witness ==
    /\ mediaIn.mediaUrl = YouTubeUrl
    /\ mediaIn.mediaType = "video"
    /\ kindOut = "youtube"

\* ---------------------------------------------- the message cap on its own
\* the cap of the page's handler
MessageCap(p) == IF p = "gift" THEN GiftMessageCap ELSE TextMessageCap

\* message.length > cap ? message.substring(0, cap) : message
capMessageShort(msg, cap) ==
    IF Len(msg) >= cap THEN SubSeq(msg, 1, cap - 1) ELSE msg

capMessage(msg, cap) ==
    IF Len(msg) > cap THEN SubSeq(msg, 1, cap) ELSE msg

\* a message of n characters
Message(n) == [i \in 1..n |-> i]

InitMessage ==
    /\ page \in OverlayPages
    /\ Mounted
    /\ ApiLoaded
    /\ AudioFine
    /\ amountIn = 0 /\ durationOut = -1
    /\ mediaIn = E0 /\ kindOut = "none"
    /\ messageIn \in {Message(n) : n \in 0..MaxMsgLen}
    /\ messageOut = NotCapped
    /\ NoHistory
    /\ NoPayment
    /\ NoRequest

\* the handler computes the message it stores
Truncate ==
    /\ messageOut = NotCapped
    /\ messageOut' = capMessage(messageIn, MessageCap(page))
    /\ UNCHANGED <<page, tvars, ovars, amountIn, durationOut, mediaIn,
                   kindOut, messageIn, hvars, pvars, gvars>>

NextMessage == Truncate

SpecMessage == InitMessage /\ [][NextMessage]_vars

\* the admissible event of the page that carries messageIn
MessageEvent ==
    [E0 EXCEPT !.type = (IF page = "gift" THEN "donation" ELSE "text"),
               !.id = "a1", !.donorName = "Tia", !.amount = 1000,
               !.msgLen = Len(messageIn)]

\* C33: the stored message is the received one when that has at most 160
\* (media overlay) or 250 (text overlays) characters, else exactly its first
\* 160 or 250 characters; it is never longer than the cap, and the alert
\* admitted for the event carries a message of that length.
C33_MessageCap ==
    messageOut # NotCapped =>
        LET cap == IF page = "gift" THEN 160 ELSE 250 IN
        /\ Len(messageIn) <= cap => messageOut = messageIn
        /\ Len(messageIn) > cap =>
              /\ Len(messageOut) = cap
              /\ \A i \in 1..cap : messageOut[i] = messageIn[i]
        /\ Len(messageOut) <= cap
        /\ FrameResult(HS, st, <<MessageEvent>>).nx.donationMessage.msgLen
              = Len(messageOut)

\* C33 witness: a message of 200 characters was cut to 160 on the media
\* overlay
C33_Witness ==
    /\ page = "gift"
    /\ Len(messageIn) = 200
    /\ Len(messageOut) = 160

\* ---------------------------------------------------- admin history page
\* useState(50): entries per page, scaled down
PageLimit == 2

\* no page the backend has answered with yet
NoPage == <<0>>

\* /hit/history?limit=..&offset=..: the entries at offset+1 .. offset+limit
historyPage(srv, off) ==
    SubSeq(srv, Min(off + 1, Len(srv) + 1), Min(off + PageLimit, Len(srv)))

\* fetchHistory after a successful response
onHistoryResponse(prev, off, data) ==
    IF off = 0 THEN data ELSE prev \o data

\* the setHistory updater of the "history" event
onHistoryPush(prev, id) ==
    IF \E i \in 1..Len(prev) : prev[i] = id THEN prev ELSE <<id>> \o prev

\* the backend has n donations when the page mounts and fetchHistory(0) is
\* on its way
InitHistory ==
    /\ page = "history"
    /\ Mounted
    /\ ApiAbsent
    /\ AudioFine
    /\ amountIn = 0 /\ durationOut = -1
    /\ mediaIn = E0 /\ kindOut = "none"
    /\ messageIn = <<>> /\ messageOut = NotCapped
    /\ \E n \in 0..(MaxItems - 1) : serverHistory = [i \in 1..n |-> n + 1 - i]
    /\ history = <<>>
    /\ loading = TRUE
    /\ offset = 0
    /\ hasMore = TRUE
    /\ fetches = {[off |-> 0, data |-> NoPage]}
    /\ pushes = <<>>
    /\ NoPayment
    /\ NoRequest

\* a donation is paid: the backend stores it and broadcasts a "history" event
NewDonation ==
    /\ Len(serverHistory) < MaxItems
    /\ LET id == Len(serverHistory) + 1 IN
         /\ serverHistory' = <<id>> \o serverHistory
         /\ pushes' = Append(pushes, id)
    /\ UNCHANGED <<page, tvars, ovars, pvars, gvars, amountIn, durationOut, mediaIn,
                   kindOut, messageIn, messageOut, history, loading, offset, hasMore,
                   fetches>>

\* the backend answers a request
Serve(f) ==
    /\ f \in fetches /\ f.data = NoPage
    /\ fetches' = (fetches \ {f})
                      \cup {[f EXCEPT !.data = historyPage(serverHistory, f.off)]}
    /\ UNCHANGED <<page, tvars, ovars, pvars, gvars, amountIn, durationOut, mediaIn,
                   kindOut, messageIn, messageOut, serverHistory, history, loading,
                   offset, hasMore, pushes>>

\* fetchHistory resumes with the response
FetchDone(f) ==
    /\ f \in fetches /\ f.data # NoPage
    /\ fetches' = fetches \ {f}
    /\ history' = onHistoryResponse(history, f.off, f.data)
    /\ hasMore' = (Len(f.data) = PageLimit)
    /\ loading' = FALSE
    /\ UNCHANGED <<page, tvars, ovars, pvars, gvars, amountIn, durationOut, mediaIn,
                   kindOut, messageIn, messageOut, serverHistory, offset, pushes>>

\* fetchHistory fails: only the error is shown
FetchFail(f) ==
    /\ f \in fetches
    /\ fetches' = fetches \ {f}
    /\ loading' = FALSE
    /\ UNCHANGED <<page, tvars, ovars, pvars, gvars, amountIn, durationOut, mediaIn,
                   kindOut, messageIn, messageOut, serverHistory, history, offset,
                   hasMore, pushes>>

\* the "history" event at the head of the socket is handled
HistoryPush ==
    /\ pushes # <<>>
    /\ history' = onHistoryPush(history, Head(pushes))
    /\ pushes' = Tail(pushes)
    /\ UNCHANGED <<page, tvars, ovars, pvars, gvars, amountIn, durationOut, mediaIn,
                   kindOut, messageIn, messageOut, serverHistory, loading, offset,
                   hasMore, fetches>>

\* the "load more" button
LoadMore ==
    /\ ~loading /\ hasMore
    /\ offset < MaxOffset
    /\ offset' = offset + PageLimit
    /\ loading' = TRUE
    /\ fetches' = fetches \cup {[off |-> offset + PageLimit, data |-> NoPage]}
    /\ UNCHANGED <<page, tvars, ovars, pvars, gvars, amountIn, durationOut, mediaIn,
                   kindOut, messageIn, messageOut, serverHistory, history, hasMore,
                   pushes>>

NextHistory ==
    \/ NewDonation
    \/ \E f \in fetches : Serve(f)
    \/ \E f \in fetches : FetchDone(f)
    \/ \E f \in fetches : FetchFail(f)
    \/ HistoryPush
    \/ LoadMore

SpecHistory == InitHistory /\ [][NextHistory]_vars

\* C34: the history list never holds an id twice, and a pushed entry whose
\* id is listed leaves the list as it is.
C34_HistoryUnique ==
    /\ \A i, j \in 1..Len(history) : i # j => history[i] # history[j]
    /\ \A i \in 1..Len(history) :
           onHistoryPush(history, history[i]) = history

\* ---------------------------------------------------- payment detail page
\* Payment["status"] other than PENDING
SettledStatuses == {"SUCCESS", "FAILED", "CANCELLED", "EXPIRED"}

\* a check-status request the backend has not answered yet
NoAnswer == "none"

\* the poll effect: its cleanup clears the interval, its body arms one only
\* for a pending payment
pollEffect(status) == status = "PENDING"

\* the setPayment updater of a matching payment_status event
onPaymentStatus(prev, ev) ==
    IF prev # "null" /\ ev.matches THEN ev.status ELSE prev

RemoveAt(q, i) == SubSeq(q, 1, i - 1) \o SubSeq(q, i + 1, Len(q))

\* fetchPayment has stored a pending payment and the effects have run
InitPayment ==
    /\ page = "payment"
    /\ Mounted
    /\ ApiAbsent
    /\ AudioFine
    /\ amountIn = 0 /\ durationOut = -1
    /\ mediaIn = E0 /\ kindOut = "none"
    /\ messageIn = <<>> /\ messageOut = NotCapped
    /\ NoHistory
    /\ backendStatus = "PENDING"
    /\ payment = "PENDING"
    /\ pollInterval = pollEffect("PENDING")
    /\ polls = <<>>
    /\ statusPushes = <<>>
    /\ NoRequest

\* the payment provider settles the order: the backend stores the status and
\* broadcasts a payment_status event for it
Settle(status) ==
    /\ backendStatus = "PENDING"
    /\ Len(statusPushes) < MaxStatusPushes
    /\ backendStatus' = status
    /\ statusPushes' = Append(statusPushes, [status |-> status, matches |-> TRUE])
    /\ UNCHANGED <<page, tvars, ovars, hvars, gvars, amountIn, durationOut, mediaIn,
                   kindOut, messageIn, messageOut, payment, pollInterval,
                   polls>>

\* a payment_status event of another order is broadcast
OtherOrder(status) ==
    /\ Len(statusPushes) < MaxStatusPushes
    /\ statusPushes' = Append(statusPushes, [status |-> status, matches |-> FALSE])
    /\ UNCHANGED <<page, tvars, ovars, hvars, gvars, amountIn, durationOut, mediaIn,
                   kindOut, messageIn, messageOut, backendStatus, payment,
                   pollInterval, polls>>

\* the interval fires: the callback posts /payment/check-status
PollFire ==
    /\ pollInterval
    /\ Len(polls) < MaxPolls
    /\ polls' = Append(polls, NoAnswer)
    /\ UNCHANGED <<page, tvars, ovars, hvars, gvars, amountIn, durationOut, mediaIn,
                   kindOut, messageIn, messageOut, backendStatus, payment,
                   pollInterval, statusPushes>>

\* the backend answers a check-status request
PollServe(i) ==
    /\ i \in 1..Len(polls) /\ polls[i] = NoAnswer
    /\ polls' = [polls EXCEPT ![i] = backendStatus]
    /\ UNCHANGED <<page, tvars, ovars, hvars, gvars, amountIn, durationOut, mediaIn,
                   kindOut, messageIn, messageOut, backendStatus, payment,
                   pollInterval, statusPushes>>

\* the callback resumes with the response: setPayment(data.data), then the
\* poll effect runs again for the new payment object
PollDone(i) ==
    /\ i \in 1..Len(polls) /\ polls[i] # NoAnswer
    /\ payment' = polls[i]
    /\ pollInterval' = pollEffect(polls[i])
    /\ polls' = RemoveAt(polls, i)
    /\ UNCHANGED <<page, tvars, ovars, hvars, gvars, amountIn, durationOut, mediaIn,
                   kindOut, messageIn, messageOut, backendStatus,
                   statusPushes>>

\* the request fails: the callback only logs
PollFail(i) ==
    /\ i \in 1..Len(polls)
    /\ polls' = RemoveAt(polls, i)
    /\ UNCHANGED <<page, tvars, ovars, hvars, gvars, amountIn, durationOut, mediaIn,
                   kindOut, messageIn, messageOut, backendStatus, payment,
                   pollInterval, statusPushes>>

\* ws.onmessage handles the payment_status event at the head of the socket
StatusPush ==
    /\ statusPushes # <<>>
    /\ payment' = onPaymentStatus(payment, Head(statusPushes))
    /\ pollInterval' = pollEffect(payment')
    /\ statusPushes' = Tail(statusPushes)
    /\ UNCHANGED <<page, tvars, ovars, hvars, gvars, amountIn, durationOut, mediaIn,
                   kindOut, messageIn, messageOut, backendStatus, polls>>

NextPayment ==
    \/ \E status \in SettledStatuses : Settle(status)
    \/ \E status \in SettledStatuses : OtherOrder(status)
    \/ PollFire
    \/ \E i \in 1..MaxPolls : PollServe(i)
    \/ \E i \in 1..MaxPolls : PollDone(i)
    \/ \E i \in 1..MaxPolls : PollFail(i)
    \/ StatusPush

SpecPayment == InitPayment /\ [][NextPayment]_vars

\* a check-status request is started
PollStarted == Len(polls') > Len(polls)

\* C35: once the displayed status is no longer PENDING it does not become
\* PENDING again and no further check-status request is started.
C35_StatusMonotone ==
    [][payment # "PENDING" => (payment' # "PENDING" /\ ~PollStarted)]_vars

\* --------------------------------------------------------------- middleware
\* strings are sequences of characters
HistoryRoute == <<"/", "h", "i", "s", "t", "o", "r", "y">>

DonateRoute == <<"/", "d", "o", "n", "a", "t", "e">>

DonateHistoryRoute == DonateRoute \o HistoryRoute

LoginRoute == <<"/", "a", "u", "t", "h", "/", "l", "o", "g", "i", "n">>

HomeRoute == <<"/">>

ApiRoute == <<"/", "a", "p", "i">>

startsWith(str, prefix) ==
    /\ Len(str) >= Len(prefix)
    /\ SubSeq(str, 1, Len(prefix)) = prefix

\* percent-encoding of one character: letters and digits stay, "/" and "%"
\* become their escapes
PercentEncode(c) ==
    CASE c = "/" -> <<"%", "2", "F">>
      [] c = "%" -> <<"%", "2", "5">>
      [] OTHER -> <<c>>

RECURSIVE encodeURIComponent(_)
encodeURIComponent(str) ==
    IF str = <<>> THEN <<>>
    ELSE PercentEncode(Head(str)) \o encodeURIComponent(Tail(str))

\* url.searchParams.set(name, value): the value as it stands in the URL
RECURSIVE searchParamsSet(_)
searchParamsSet(value) ==
    IF value = <<>> THEN <<>>
    ELSE PercentEncode(Head(value)) \o searchParamsSet(Tail(value))

\* searchParams.get(name): the value of the URL with its escapes decoded once
RECURSIVE searchParamsGet(_)
searchParamsGet(search) ==
    IF search = <<>> THEN <<>>
    ELSE IF Len(search) >= 3 /\ SubSeq(search, 1, 3) = <<"%", "2", "F">>
         THEN <<"/">> \o searchParamsGet(SubSeq(search, 4, Len(search)))
    ELSE IF Len(search) >= 3 /\ SubSeq(search, 1, 3) = <<"%", "2", "5">>
         THEN <<"%">> \o searchParamsGet(SubSeq(search, 4, Len(search)))
    ELSE <<Head(search)>> \o searchParamsGet(Tail(search))

isProtectedRoute(pathname) ==
    startsWith(pathname, HistoryRoute) \/ startsWith(pathname, DonateHistoryRoute)

isAuthRoute(pathname) == startsWith(pathname, LoginRoute)

\* config.matcher: middleware runs for every path but those of the API
matcher(pathname) == ~startsWith(pathname, ApiRoute)

isAdmin(token) == ~(token.userType # "admin" /\ token.role # "admin")

next == [kind |-> "next", to |-> <<>>, search |-> <<>>]

redirect(to, search) == [kind |-> "redirect", to |-> to, search |-> search]

middleware(req) ==
    IF ~matcher(req.pathname) THEN next
    ELSE IF isProtectedRoute(req.pathname) /\ ~req.token.present
         THEN redirect(LoginRoute,
                       searchParamsSet(encodeURIComponent(req.pathname)))
    ELSE IF isProtectedRoute(req.pathname) /\ ~isAdmin(req.token)
         THEN redirect(HomeRoute, <<>>)
    ELSE IF isAuthRoute(req.pathname) /\ req.token.present
         THEN redirect(DonateHistoryRoute, <<>>)
    ELSE next

Pathnames ==
    { HistoryRoute,
      HistoryRoute \o <<"/", "2">>,
      HistoryRoute \o <<"x">>,
      DonateHistoryRoute,
      DonateHistoryRoute \o <<"/", "2">>,
      DonateRoute,
      DonateRoute \o <<"/", "t", "e", "x", "t">>,
      HomeRoute,
      LoginRoute,
      ApiRoute \o HistoryRoute,
      <<"/", "H", "i", "s", "t", "o", "r", "y">> }

TokenClaims == {"admin", "user", "undefined"}

Tokens ==
    {NoToken} \cup [present : {TRUE}, userType : TokenClaims, role : TokenClaims]

InitGate ==
    /\ page = "middleware"
    /\ Mounted
    /\ ApiAbsent
    /\ AudioFine
    /\ amountIn = 0 /\ durationOut = -1
    /\ mediaIn = E0 /\ kindOut = "none"
    /\ messageIn = <<>> /\ messageOut = NotCapped
    /\ NoHistory
    /\ NoPayment
    /\ requestIn \in [pathname : Pathnames, token : Tokens]
    /\ responseOut = NoResponse

\* the request reaches middleware
Gate ==
    /\ responseOut = NoResponse
    /\ responseOut' = middleware(requestIn)
    /\ UNCHANGED <<page, tvars, ovars, hvars, pvars, amountIn, durationOut,
                   mediaIn, kindOut, messageIn, messageOut, requestIn>>

NextGate == Gate

SpecGate == InitGate /\ [][NextGate]_vars

\* the path the login page reads from the callbackUrl parameter
callbackUrl == searchParamsGet(responseOut.search)

Answered == responseOut # NoResponse

PathOfAdminRoute ==
    \/ startsWith(requestIn.pathname, <<"/", "h", "i", "s", "t", "o", "r", "y">>)
    \/ startsWith(requestIn.pathname,
                  <<"/", "d", "o", "n", "a", "t", "e",
                    "/", "h", "i", "s", "t", "o", "r", "y">>)

AdminToken ==
    /\ requestIn.token.present
    /\ requestIn.token.userType = "admin" \/ requestIn.token.role = "admin"

\* the routing half of C36: who is passed through and where the others go
GateRouting ==
    (Answered /\ PathOfAdminRoute) =>
        /\ responseOut.kind = "next" <=> AdminToken
        /\ ~requestIn.token.present =>
               (responseOut.kind = "redirect" /\ responseOut.to = LoginRoute)
        /\ (requestIn.token.present /\ ~AdminToken) =>
               (responseOut.kind = "redirect" /\ responseOut.to = HomeRoute)

\* C36: a request for an admin route is passed through only with a token
\* whose userType or role is admin; without a token it is redirected to
\* /auth/login with the original path as callbackUrl, with another token it
\* is redirected to /.
C36_AdminGate ==
    /\ GateRouting
    /\ (Answered /\ PathOfAdminRoute /\ ~requestIn.token.present) =>
           callbackUrl = requestIn.pathname
====
